---- MODULE Spec2Model ----
(***************************************************************************)
(* The challan approval workflow of mcp_challan: the challans table of     *)
(* database.py and the tools of mcp_server.py that read and write it.      *)
(*                                                                         *)
(* Spec     : every tool call runs to completion before the next starts.   *)
(* ConcSpec : tool calls of several callers interleave at the boundaries   *)
(*            of their database statements (each db.* method opens its own *)
(*            connection and commits; a tool holds nothing between them).  *)
(***************************************************************************)
EXTENDS Integers, Sequences, FiniteSets, TLC

\* ------------------------------------------------------------------ bounds
MaxChallans == 2    \* rows the challans table may hold (seeded + submitted)
NumSeeds    == 1    \* rows inserted by populate_sample_data (the code inserts 20)
MaxWrites   == 4    \* INSERT/UPDATE statements executed by tools
MaxTicks    == 1    \* advances of the wall clock

\* ------------------------------------------------------------- value sets
NULL      == "NULL"     \* SQL NULL / Python None in a TEXT column or argument
NullDate  == 0          \* SQL NULL in a TIMESTAMP column
StartTime == 4          \* datetime.now() when the database is constructed

Stages   == {"manager", "hod", "it_admin"}

\* the users table: username -> role (a subset of the rows of populate_sample_data)
users == [john_manager  |-> "manager",
          sara_director |-> "manager",
          mike_hod      |-> "hod",
          tech_admin    |-> "it_admin",
          alice_sales   |-> "user"]

UserNames  == DOMAIN users
\* usernames a caller may pass: one stored user of each role and one that is not stored
AnyNames   == {"john_manager", "mike_hod", "tech_admin", "alice_sales", "nobody"}
\* role arguments a caller may pass
AnyRoles   == Stages \cup {"user"}
\* challan ids a caller may pass: every id in the table and one beyond
AnyIds(t)  == 1..(Len(t) + 1)
\* remarks a caller may pass to approve_challan (optional) and reject_challan
ApproveRemarks == {NULL, "ok"}
RejectReasons  == {"no"}
\* serial numbers, quantities and requesters a caller may pass to create_challan
SeedSerials == <<"SN1000000000", "SN1000000001", "SN1000000002", "SN1000000003">>
AnySerials  == {"", "SN1", SeedSerials[1]}
AnyQuantities == {0, 1}
AnyRequesters == {"alice_sales", "nobody"}
\* roles and usernames a caller may pass to get_pending_approvals_for_role: two
\* holders of one role, and a name that is not stored
PendingRoles == {"manager", "hod"}
PendingNames == {"john_manager", "sara_director", "nobody"}

\* requesters a caller may pass to create_challan and usernames a caller may pass
\* to list_my_challans when the lists are exercised: two stored users and one that
\* is not stored
ListNames == {"alice_sales", "john_manager", "nobody"}

VARIABLES
    challans,   \* the challans table: a sequence of rows, row i has id i
    now,        \* the wall clock read by datetime.now() / CURRENT_TIMESTAMP
    resp,       \* the message a tool call has returned, until it is delivered
    trail,      \* per challan id: which prefix of manager-approve, hod-approve,
                \* it_admin-approve its updates have followed so far
    writes,     \* number of INSERT/UPDATE statements executed by tools
    inflight    \* per caller: the decide call it has validated but not yet written

vars == <<challans, now, resp, trail, writes, inflight>>

Procs == {"c1", "c2"}
\* a caller's decide call between its reads and its UPDATE: the tool's arguments
\* and the status of the role's own stage in the row it read
Call(op, challan_id, role, username, remarks, seen) ==
    [op |-> op, challan_id |-> challan_id, role |-> role, username |-> username,
     remarks |-> remarks, seen |-> seen]
Idle  == Call("idle", 0, "", "", NULL, "")

\* ----------------------------------------------------------- the database
\* A row right after INSERT if the status columns had no DEFAULT 'pending'.
NewRow_without_defaults(serial_number, quantity, requested_by, request_date) ==
    [serial_number |-> serial_number, quantity |-> quantity,
     requested_by |-> requested_by, request_date |-> request_date,
     manager_status |-> NULL, manager_approval_date |-> NullDate,
     hod_status |-> NULL, hod_approval_date |-> NullDate,
     it_status |-> NULL, it_approval_date |-> NullDate,
     final_status |-> NULL, remarks |-> NULL]

\* A row right after INSERT by create_challan: the column defaults of init_db.
NewRow(serial_number, quantity, requested_by, request_date) ==
    [serial_number |-> serial_number, quantity |-> quantity,
     requested_by |-> requested_by, request_date |-> request_date,
     manager_status |-> "pending", manager_approval_date |-> NullDate,
     hod_status |-> "pending", hod_approval_date |-> NullDate,
     it_status |-> "pending", it_approval_date |-> NullDate,
     final_status |-> "pending", remarks |-> NULL]

\* The status flows _generate_status_flow can return (dates as offsets that keep
\* manager_date < hod_date < it_date, all before StartTime).
StatusFlows ==
    LET F(m, md, h, hd, i, id, f, r) ==
            [manager_status |-> m, manager_date |-> md, hod_status |-> h,
             hod_date |-> hd, it_status |-> i, it_date |-> id,
             final_status |-> f, remarks |-> r]
        d1 == StartTime - 3
        d2 == StartTime - 2
        d3 == StartTime - 1
    IN  { F("pending",  NullDate, "pending",  NullDate, "pending",  NullDate, "pending",  NULL),
          F("rejected", d1,       "pending",  NullDate, "pending",  NullDate, "rejected",
            "Not aligned with department goals"),
          F("approved", d1,       "pending",  NullDate, "pending",  NullDate, "pending",  NULL),
          F("approved", d1,       "rejected", d2,       "pending",  NullDate, "rejected",
            "Budget constraints - request denied"),
          F("approved", d1,       "approved", d2,       "pending",  NullDate, "pending",  NULL),
          F("approved", d1,       "approved", d2,       "approved", d3,       "approved",
            "Device ready for allocation"),
          F("approved", d1,       "approved", d2,       "rejected", d3,       "rejected",
            "Inventory shortage - check back in 2 weeks") }

\* The i-th sample challan of populate_sample_data with status flow f.
SeedRow(i, f) ==
    [serial_number |-> SeedSerials[i], quantity |-> 1,
     requested_by |-> "alice_sales", request_date |-> StartTime - 3,
     manager_status |-> f.manager_status, manager_approval_date |-> f.manager_date,
     hod_status |-> f.hod_status, hod_approval_date |-> f.hod_date,
     it_status |-> f.it_status, it_approval_date |-> f.it_date,
     final_status |-> f.final_status, remarks |-> f.remarks]

\* db.get_user_by_username: the stored role, or NULL when no row matches.
db_get_user_by_username(username) ==
    IF username \in UserNames THEN users[username] ELSE NULL

\* db.get_challan_status: is there a row with this id (the row is t[challan_id]).
db_has_challan(t, challan_id) == challan_id \in 1..Len(t)

\* COALESCE(?, remarks)
Coalesce(a, b) == IF a # NULL THEN a ELSE b

\* db.update_approval_status with the it_admin branch written like the other two
\* (final_status left out of its SET list).
db_update_without_final(t, challan_id, role, status, remarks, approval_date) ==
    IF ~db_has_challan(t, challan_id) THEN t
    ELSE CASE role = "manager" ->
                [t EXCEPT ![challan_id] =
                    [@ EXCEPT !.manager_status = status,
                              !.manager_approval_date = approval_date,
                              !.remarks = Coalesce(remarks, @)]]
           [] role = "hod" ->
                [t EXCEPT ![challan_id] =
                    [@ EXCEPT !.hod_status = status,
                              !.hod_approval_date = approval_date,
                              !.remarks = Coalesce(remarks, @)]]
           [] role = "it_admin" ->
                [t EXCEPT ![challan_id] =
                    [@ EXCEPT !.it_status = status,
                              !.it_approval_date = approval_date,
                              !.remarks = Coalesce(remarks, @)]]
           [] OTHER -> t

\* db.update_approval_status with the approval date left out of every SET list.
db_update_without_date(t, challan_id, role, status, remarks, approval_date) ==
    IF ~db_has_challan(t, challan_id) THEN t
    ELSE CASE role = "manager" ->
                [t EXCEPT ![challan_id] =
                    [@ EXCEPT !.manager_status = status,
                              !.remarks = Coalesce(remarks, @)]]
           [] role = "hod" ->
                [t EXCEPT ![challan_id] =
                    [@ EXCEPT !.hod_status = status,
                              !.remarks = Coalesce(remarks, @)]]
           [] role = "it_admin" ->
                [t EXCEPT ![challan_id] =
                    [@ EXCEPT !.it_status = status,
                              !.final_status = status,
                              !.remarks = Coalesce(remarks, @)]]
           [] OTHER -> t

\* db.update_approval_status with WHERE id = ? left out of every UPDATE: the
\* role's branch is applied to every row.
db_update_without_where(t, challan_id, role, status, remarks, approval_date) ==
    [j \in 1..Len(t) |->
        CASE role = "manager" ->
                [t[j] EXCEPT !.manager_status = status,
                             !.manager_approval_date = approval_date,
                             !.remarks = Coalesce(remarks, @)]
          [] role = "hod" ->
                [t[j] EXCEPT !.hod_status = status,
                             !.hod_approval_date = approval_date,
                             !.remarks = Coalesce(remarks, @)]
          [] role = "it_admin" ->
                [t[j] EXCEPT !.it_status = status,
                             !.it_approval_date = approval_date,
                             !.final_status = status,
                             !.remarks = Coalesce(remarks, @)]
          [] OTHER -> t[j]]

\* db.update_approval_status: the table after the UPDATE of the role's branch.
db_update_approval_status(t, challan_id, role, status, remarks, approval_date) ==
    IF ~db_has_challan(t, challan_id) THEN t
    ELSE CASE role = "manager" ->
                [t EXCEPT ![challan_id] =
                    [@ EXCEPT !.manager_status = status,
                              !.manager_approval_date = approval_date,
                              !.remarks = Coalesce(remarks, @)]]
           [] role = "hod" ->
                [t EXCEPT ![challan_id] =
                    [@ EXCEPT !.hod_status = status,
                              !.hod_approval_date = approval_date,
                              !.remarks = Coalesce(remarks, @)]]
           [] role = "it_admin" ->
                [t EXCEPT ![challan_id] =
                    [@ EXCEPT !.it_status = status,
                              !.it_approval_date = approval_date,
                              !.final_status = status,
                              !.remarks = Coalesce(remarks, @)]]
           [] OTHER -> t

\* Does update_approval_status execute an UPDATE for this role at all.
db_update_executes(role) == role \in Stages

\* The status column of a role's stage in a row ("" for a role without a stage).
StageStatus(row, role) ==
    CASE role = "manager"  -> row.manager_status
      [] role = "hod"      -> row.hod_status
      [] role = "it_admin" -> row.it_status
      [] OTHER             -> ""

\* The date column of a role's stage in a row.
StageDate(row, role) ==
    CASE role = "manager"  -> row.manager_approval_date
      [] role = "hod"      -> row.hod_approval_date
      [] role = "it_admin" -> row.it_approval_date
      [] OTHER             -> NullDate

\* The WHERE clauses of db.get_pending_approvals with the manager's query selecting
\* on final_status instead of manager_status.
PendingWhere_by_final(row, role) ==
    CASE role = "manager"  -> row.final_status = "pending"
      [] role = "hod"      -> row.manager_status = "approved" /\ row.hod_status = "pending"
      [] role = "it_admin" -> /\ row.manager_status = "approved"
                              /\ row.hod_status = "approved"
                              /\ row.it_status = "pending"
      [] OTHER             -> FALSE

\* The WHERE clauses of db.get_pending_approvals if each query selected on the
\* role's own status only.
PendingWhere_own_stage(row, role) ==
    CASE role = "manager"  -> row.manager_status = "pending"
      [] role = "hod"      -> row.hod_status = "pending"
      [] role = "it_admin" -> row.it_status = "pending"
      [] OTHER             -> FALSE

\* The WHERE clauses of db.get_pending_approvals.
PendingWhere(row, role) ==
    CASE role = "manager"  -> row.manager_status = "pending"
      [] role = "hod"      -> row.manager_status = "approved" /\ row.hod_status = "pending"
      [] role = "it_admin" -> /\ row.manager_status = "approved"
                              /\ row.hod_status = "approved"
                              /\ row.it_status = "pending"
      [] OTHER             -> FALSE

\* db.get_pending_approvals: the ids of the rows selected for the role.
db_get_pending_approvals(t, role) ==
    {i \in 1..Len(t) : PendingWhere(t[i], role)}

\* The sequences without repetition of the elements of a set of ids.
Orderings(ids) ==
    {s \in [1..Cardinality(ids) -> ids] : \A a, b \in DOMAIN s : a # b => s[a] # s[b]}

\* A SELECT without ORDER BY: the rows come in the order of their ids.
OrderByRowid(t, ids) ==
    {s \in Orderings(ids) : \A a, b \in DOMAIN s : a < b => s[a] < s[b]}

\* ORDER BY request_date DESC: the orders the selected rows may be returned in
\* (SQL leaves the order of rows of equal request_date open).
OrderByRequestDateDesc(t, ids) ==
    {s \in Orderings(ids) :
        \A a, b \in DOMAIN s : a < b => t[s[a]].request_date >= t[s[b]].request_date}

\* db.get_all_challans without the WHERE requested_by = ? of its first branch.
db_get_all_challans_unfiltered(t, username) ==
    OrderByRequestDateDesc(t, 1..Len(t))

\* db.get_all_challans: the possible results, as sequences of ids (a username
\* that is None or empty selects every row).
db_get_all_challans(t, username) ==
    IF username \notin {NULL, ""}
    THEN OrderByRequestDateDesc(t, {i \in 1..Len(t) : t[i].requested_by = username})
    ELSE OrderByRequestDateDesc(t, 1..Len(t))

\* db.get_pending_approvals with its ORDER BY: the possible results, as sequences
\* of ids.
db_get_pending_approvals_ordered(t, role) ==
    OrderByRequestDateDesc(t, db_get_pending_approvals(t, role))

\* -------------------------------------------------------------- the tools
\* A returned message: which of the tools' texts it is and the values interpolated
\* into it (0, "" or NULL for a value the text does not carry).
Msg(kind, challan_id, username, role, remarks) ==
    [kind |-> kind, challan_id |-> challan_id, username |-> username,
     role |-> role, remarks |-> remarks]

NoResp == Msg("none", 0, "", "", NULL)

\* approve_challan's validation without the comparison of the approver's stored
\* role with the role argument.
approve_check_without_role(t, challan_id, role, approver_username) ==
    IF ~db_has_challan(t, challan_id) THEN "challan_not_found"
    ELSE IF db_get_user_by_username(approver_username) = NULL THEN "approver_not_found"
    ELSE IF role = "hod" /\ t[challan_id].manager_status # "approved"
         THEN "hod_before_manager"
    ELSE IF role = "it_admin" /\ (t[challan_id].manager_status # "approved"
                                  \/ t[challan_id].hod_status # "approved")
         THEN "it_before_manager_hod"
    ELSE "ok"

\* approve_challan's validation without the test that the approver was found.
approve_check_without_user(t, challan_id, role, approver_username) ==
    IF ~db_has_challan(t, challan_id) THEN "challan_not_found"
    ELSE IF db_get_user_by_username(approver_username) # role THEN "role_mismatch"
    ELSE IF role = "hod" /\ t[challan_id].manager_status # "approved"
         THEN "hod_before_manager"
    ELSE IF role = "it_admin" /\ (t[challan_id].manager_status # "approved"
                                  \/ t[challan_id].hod_status # "approved")
         THEN "it_before_manager_hod"
    ELSE "ok"

\* The validation of approve_challan on the row it read; "ok" when it goes on to write.
approve_check(t, challan_id, role, approver_username) ==
    IF ~db_has_challan(t, challan_id) THEN "challan_not_found"
    ELSE IF db_get_user_by_username(approver_username) = NULL THEN "approver_not_found"
    ELSE IF db_get_user_by_username(approver_username) # role THEN "role_mismatch"
    ELSE IF role = "hod" /\ t[challan_id].manager_status # "approved"
         THEN "hod_before_manager"
    ELSE IF role = "it_admin" /\ (t[challan_id].manager_status # "approved"
                                  \/ t[challan_id].hod_status # "approved")
         THEN "it_before_manager_hod"
    ELSE "ok"

\* The validation of reject_challan on the row it read; "ok" when it goes on to write.
reject_check(t, challan_id, role, rejecter_username) ==
    IF ~db_has_challan(t, challan_id) THEN "challan_not_found"
    ELSE IF db_get_user_by_username(rejecter_username) = NULL THEN "rejecter_not_found"
    ELSE IF db_get_user_by_username(rejecter_username) # role THEN "role_mismatch"
    ELSE "ok"

\* The message an early return of approve_challan / reject_challan carries.
ErrorMsg(kind, challan_id, role, username) ==
    CASE kind = "challan_not_found"     -> Msg(kind, challan_id, "", "", NULL)
      [] kind \in {"approver_not_found",
                   "rejecter_not_found"} -> Msg(kind, 0, username, "", NULL)
      [] kind = "role_mismatch"         -> Msg(kind, 0, username, role, NULL)
      [] OTHER                          -> Msg(kind, 0, "", "", NULL)

\* How an update moves a challan's trail.
TrailStep(tr, role, status) ==
    CASE tr = "submitted" /\ role = "manager"  /\ status = "approved" -> "m"
      [] tr = "m"         /\ role = "hod"      /\ status = "approved" -> "mh"
      [] tr = "mh"        /\ role = "it_admin" /\ status = "approved" -> "mhi"
      [] OTHER -> IF tr = "seed" THEN "seed" ELSE "off"

\* approve_challan run on table t at time clock: the table it leaves and the
\* message it returns.
approve_challan(t, clock, challan_id, role, approver_username, remarks) ==
    LET r == approve_check(t, challan_id, role, approver_username) IN
    IF r = "ok"
    THEN [table |-> db_update_approval_status(t, challan_id, role, "approved",
                                              remarks, clock),
          msg   |-> Msg("approved", challan_id, approver_username, role, remarks)]
    ELSE [table |-> t, msg |-> ErrorMsg(r, challan_id, role, approver_username)]

\* reject_challan run on table t at time clock: the table it leaves and the
\* message it returns.
reject_challan(t, clock, challan_id, role, rejecter_username, rejection_reason) ==
    LET r == reject_check(t, challan_id, role, rejecter_username) IN
    IF r = "ok"
    THEN [table |-> db_update_approval_status(t, challan_id, role, "rejected",
                                              rejection_reason, clock),
          msg   |-> Msg("rejected", challan_id, rejecter_username, role,
                        rejection_reason)]
    ELSE [table |-> t, msg |-> ErrorMsg(r, challan_id, role, rejecter_username)]

\* challans.serial_number without its UNIQUE constraint: no INSERT is refused.
SerialNeverTaken(t, serial_number) == FALSE

\* The UNIQUE constraint on challans.serial_number.
SerialTaken(t, serial_number) ==
    \E i \in 1..Len(t) : t[i].serial_number = serial_number

\* db.create_challan: the table after the INSERT (the new row gets the next id).
db_create_challan(t, serial_number, quantity, requested_by, clock) ==
    Append(t, NewRow(serial_number, quantity, requested_by, clock))

\* create_challan without the lookup of the requester.
create_challan_without_user(t, clock, serial_number, quantity, requested_by) ==
    IF SerialTaken(t, serial_number)
    THEN [table |-> t, msg |-> Msg("create_error", 0, "", "", NULL)]
    ELSE [table |-> db_create_challan(t, serial_number, quantity, requested_by, clock),
          msg   |-> Msg("created", Len(t) + 1, requested_by, "", NULL)]

\* create_challan run on table t at time clock: the table it leaves and the
\* message it returns (the INSERT raises on a serial number already stored).
create_challan(t, clock, serial_number, quantity, requested_by) ==
    IF db_get_user_by_username(requested_by) = NULL
    THEN [table |-> t, msg |-> Msg("user_not_found", 0, requested_by, "", NULL)]
    ELSE IF SerialTaken(t, serial_number)
    THEN [table |-> t, msg |-> Msg("create_error", 0, "", "", NULL)]
    ELSE [table |-> db_create_challan(t, serial_number, quantity, requested_by, clock),
          msg   |-> Msg("created", Len(t) + 1, requested_by, "", NULL)]

\* create_challan from its INSERT on, for a requester already validated: the table
\* it leaves and the message it returns.
create_insert(t, clock, serial_number, quantity, requested_by) ==
    IF SerialTaken(t, serial_number)
    THEN [table |-> t, msg |-> Msg("create_error", 0, "", "", NULL)]
    ELSE [table |-> db_create_challan(t, serial_number, quantity, requested_by, clock),
          msg   |-> Msg("created", Len(t) + 1, requested_by, "", NULL)]

\* The "Progress Analysis" line of get_challan_status ("" when no branch appends one).
ProgressAnalysis(row) ==
    IF row.final_status = "approved" THEN "fully_approved"
    ELSE IF row.final_status = "rejected"
    THEN IF row.manager_status = "rejected" THEN "rejected_at_manager"
         ELSE IF row.hod_status = "rejected" THEN "rejected_at_hod"
         ELSE IF row.it_status = "rejected" THEN "rejected_at_it"
         ELSE ""
    ELSE IF row.manager_status = "pending" THEN "waiting_for_manager"
         ELSE IF row.hod_status = "pending" THEN "waiting_for_hod"
         ELSE IF row.it_status = "pending" THEN "waiting_for_it"
         ELSE ""

\* get_challan_status with the number of stored challans added to its report.
get_challan_status_with_total(t, challan_id) ==
    IF ~db_has_challan(t, challan_id)
    THEN [kind |-> "status_not_found", challan_id |-> challan_id]
    ELSE LET row == t[challan_id] IN
         [kind |-> "status", challan_id |-> challan_id,
          requested_by |-> row.requested_by, request_date |-> row.request_date,
          manager_status |-> row.manager_status,
          manager_approval_date |-> row.manager_approval_date,
          hod_status |-> row.hod_status, hod_approval_date |-> row.hod_approval_date,
          it_status |-> row.it_status, it_approval_date |-> row.it_approval_date,
          final_status |-> row.final_status, remarks |-> row.remarks,
          progress |-> ProgressAnalysis(row), total |-> Len(t)]

\* The get_challan_status tool on table t: the report it returns, as the values
\* it prints (a date or the remarks that are NULL are not printed).
get_challan_status(t, challan_id) ==
    IF ~db_has_challan(t, challan_id)
    THEN [kind |-> "status_not_found", challan_id |-> challan_id]
    ELSE LET row == t[challan_id] IN
         [kind |-> "status", challan_id |-> challan_id,
          requested_by |-> row.requested_by, request_date |-> row.request_date,
          manager_status |-> row.manager_status,
          manager_approval_date |-> row.manager_approval_date,
          hod_status |-> row.hod_status, hod_approval_date |-> row.hod_approval_date,
          it_status |-> row.it_status, it_approval_date |-> row.it_approval_date,
          final_status |-> row.final_status, remarks |-> row.remarks,
          progress |-> ProgressAnalysis(row)]

\* One entry of the list get_pending_approvals_for_role prints.
PendingItem(t, i) ==
    [challan_id |-> i, requested_by |-> t[i].requested_by,
     request_date |-> t[i].request_date]

\* get_pending_approvals_for_role without the comparison of the user's stored
\* role with the role argument.
get_pending_without_role(t, role, username) ==
    IF db_get_user_by_username(username) = NULL
    THEN [kind |-> "pending_user_not_found", username |-> username]
    ELSE LET pending_challans == db_get_pending_approvals(t, role) IN
         IF pending_challans = {}
         THEN [kind |-> "none_pending", role |-> role]
         ELSE [kind |-> "pending_list", role |-> role,
               items |-> {PendingItem(t, i) : i \in pending_challans},
               total |-> Cardinality(pending_challans)]

\* The get_pending_approvals_for_role tool on table t: the message it returns
\* (the entries of the list as a set: their order is ORDER BY request_date DESC).
get_pending_approvals_for_role(t, role, username) ==
    IF db_get_user_by_username(username) = NULL
    THEN [kind |-> "pending_user_not_found", username |-> username]
    ELSE IF db_get_user_by_username(username) # role
    THEN [kind |-> "pending_role_mismatch", username |-> username, role |-> role]
    ELSE LET pending_challans == db_get_pending_approvals(t, role) IN
         IF pending_challans = {}
         THEN [kind |-> "none_pending", role |-> role]
         ELSE [kind |-> "pending_list", role |-> role,
               items |-> {PendingItem(t, i) : i \in pending_challans},
               total |-> Cardinality(pending_challans)]

\* The "Waiting for ..." line list_my_challans prints for a challan ("" for none).
WaitingStage(row) ==
    IF row.final_status = "pending"
    THEN IF row.manager_status = "pending" THEN "manager"
         ELSE IF row.hod_status = "pending" THEN "hod"
         ELSE IF row.it_status = "pending" THEN "it"
         ELSE ""
    ELSE ""

\* One entry of the list list_my_challans prints.
MineItem(t, i) ==
    [challan_id |-> i, final_status |-> t[i].final_status,
     request_date |-> t[i].request_date, waiting |-> WaitingStage(t[i])]

\* The list_my_challans tool on table t: the messages it may return.
list_my_challans(t, username) ==
    IF db_get_user_by_username(username) = NULL
    THEN {[kind |-> "list_user_not_found", username |-> username]}
    ELSE {IF Len(o) = 0
          THEN [kind |-> "none_found", username |-> username]
          ELSE [kind |-> "my_list", username |-> username,
                items |-> [k \in DOMAIN o |-> MineItem(t, o[k])], total |-> Len(o)]
          : o \in db_get_all_challans(t, username)}

\* The challan://resources/all-challans resource on table t: the lists it may
\* return, every column of every row.
get_all_challans(t) ==
    {[kind |-> "all_challans",
      items |-> [k \in DOMAIN o |-> [challan_id |-> o[k], row |-> t[o[k]]]]]
     : o \in db_get_all_challans(t, NULL)}

\* The bookkeeping of a decide call that returned msg: an executed UPDATE is
\* counted and moves the challan's trail.
Logged(msg, role) ==
    IF msg.kind \in {"approved", "rejected"} /\ db_update_executes(role)
    THEN /\ trail' = [trail EXCEPT ![msg.challan_id] = TrailStep(@, role, msg.kind)]
         /\ writes' = writes + 1
    ELSE UNCHANGED <<trail, writes>>

\* A caller invokes approve_challan and the tool runs to completion.
ApproveCall(challan_id, role, approver_username, remarks) ==
    LET out == approve_challan(challans, now, challan_id, role, approver_username,
                               remarks) IN
    /\ resp = NoResp
    /\ writes < MaxWrites
    /\ challans' = out.table
    /\ resp' = out.msg
    /\ Logged(out.msg, role)
    /\ UNCHANGED <<now, inflight>>

\* A caller invokes reject_challan and the tool runs to completion.
RejectCall(challan_id, role, rejecter_username, rejection_reason) ==
    LET out == reject_challan(challans, now, challan_id, role, rejecter_username,
                              rejection_reason) IN
    /\ resp = NoResp
    /\ writes < MaxWrites
    /\ challans' = out.table
    /\ resp' = out.msg
    /\ Logged(out.msg, role)
    /\ UNCHANGED <<now, inflight>>

\* A caller invokes create_challan and the tool runs to completion.
CreateCall(serial_number, quantity, requested_by) ==
    LET out == create_challan(challans, now, serial_number, quantity, requested_by) IN
    /\ resp = NoResp
    /\ writes < MaxWrites
    /\ Len(challans) < MaxChallans
    /\ challans' = out.table
    /\ resp' = out.msg
    /\ IF out.msg.kind = "created"
       THEN trail' = Append(trail, "submitted") /\ writes' = writes + 1
       ELSE UNCHANGED <<trail, writes>>
    /\ UNCHANGED <<now, inflight>>

\* A caller invokes get_challan_status: a read, nothing is written.
StatusCall(challan_id) ==
    /\ resp = NoResp
    /\ resp' = get_challan_status(challans, challan_id)
    /\ UNCHANGED <<challans, now, trail, writes, inflight>>

\* A caller invokes get_pending_approvals_for_role: a read, nothing is written.
PendingCall(role, username) ==
    /\ resp = NoResp
    /\ resp' = get_pending_approvals_for_role(challans, role, username)
    /\ UNCHANGED <<challans, now, trail, writes, inflight>>

\* A caller invokes list_my_challans: a read, nothing is written.
ListMineCall(username) ==
    /\ resp = NoResp
    /\ resp' \in list_my_challans(challans, username)
    /\ UNCHANGED <<challans, now, trail, writes, inflight>>

\* A caller reads the all-challans resource: nothing is written.
ListAllCall ==
    /\ resp = NoResp
    /\ resp' \in get_all_challans(challans)
    /\ UNCHANGED <<challans, now, trail, writes, inflight>>

\* The locals of the pending-approvals resource between its queries: how many
\* queries have run and the ids each has returned.
SummaryReq(pc, pending_manager, pending_hod) ==
    [op |-> "summary", pc |-> pc, pending_manager |-> pending_manager,
     pending_hod |-> pending_hod]

\* The pending-approvals resource, one db.get_pending_approvals call at a time
\* (each opens its own connection); after the third it returns the counts.
summary_query(p) ==
    /\ resp = NoResp
    /\ CASE inflight[p].op = "idle" ->
              /\ inflight' = [inflight EXCEPT ![p] =
                      SummaryReq(1, db_get_pending_approvals(challans, "manager"), {})]
              /\ UNCHANGED resp
         [] inflight[p].op = "summary" /\ inflight[p].pc = 1 ->
              /\ inflight' = [inflight EXCEPT ![p] =
                      SummaryReq(2, inflight[p].pending_manager,
                                 db_get_pending_approvals(challans, "hod"))]
              /\ UNCHANGED resp
         [] inflight[p].op = "summary" /\ inflight[p].pc = 2 ->
              LET pending_it == db_get_pending_approvals(challans, "it_admin")
                  m == Cardinality(inflight[p].pending_manager)
                  h == Cardinality(inflight[p].pending_hod)
                  i == Cardinality(pending_it)
              IN /\ resp' = [kind |-> "pending_summary", manager_pending |-> m,
                             hod_pending |-> h, it_pending |-> i,
                             total_pending |-> m + h + i, last_updated |-> now]
                 /\ inflight' = [inflight EXCEPT ![p] = Idle]
         [] OTHER -> FALSE
    /\ UNCHANGED <<challans, now, trail, writes>>

\* A caller's create_challan between the validation of the requester and the INSERT.
CreateReq(serial_number, quantity, requested_by) ==
    [op |-> "create", serial_number |-> serial_number, quantity |-> quantity,
     requested_by |-> requested_by]

\* create_challan up to its INSERT: the lookup of the requester (lines 117-119).
create_begin(p, serial_number, quantity, requested_by) ==
    /\ resp = NoResp
    /\ inflight[p].op = "idle"
    /\ Len(challans) < MaxChallans
    /\ writes + Cardinality({q \in Procs : inflight[q].op # "idle"}) < MaxWrites
    /\ IF db_get_user_by_username(requested_by) = NULL
       THEN /\ resp' = Msg("user_not_found", 0, requested_by, "", NULL)
            /\ UNCHANGED inflight
       ELSE /\ inflight' = [inflight EXCEPT ![p] =
                                CreateReq(serial_number, quantity, requested_by)]
            /\ UNCHANGED resp
    /\ UNCHANGED <<challans, now, trail, writes>>

\* The rest of a create_challan: the INSERT and the message (lines 121-151).
create_commit(p) ==
    LET c == inflight[p]
        out == create_insert(challans, now, c.serial_number, c.quantity, c.requested_by)
    IN
    /\ resp = NoResp
    /\ c.op = "create"
    /\ Len(out.table) <= MaxChallans
    /\ challans' = out.table
    /\ resp' = out.msg
    /\ IF out.msg.kind = "created"
       THEN trail' = Append(trail, "submitted") /\ writes' = writes + 1
       ELSE UNCHANGED <<trail, writes>>
    /\ inflight' = [inflight EXCEPT ![p] = Idle]
    /\ UNCHANGED now

\* approve_challan up to its UPDATE: the reads and the validation (lines 238-257).
approve_begin(p, challan_id, role, approver_username, remarks) ==
    LET r == approve_check(challans, challan_id, role, approver_username) IN
    /\ resp = NoResp
    /\ inflight[p].op = "idle"
    /\ writes + Cardinality({q \in Procs : inflight[q].op # "idle"}) < MaxWrites
    /\ IF r = "ok"
       THEN /\ inflight' = [inflight EXCEPT ![p] =
                    Call("approve", challan_id, role, approver_username, remarks,
                         StageStatus(challans[challan_id], role))]
            /\ UNCHANGED resp
       ELSE /\ resp' = ErrorMsg(r, challan_id, role, approver_username)
            /\ UNCHANGED inflight
    /\ UNCHANGED <<challans, now, trail, writes>>

\* reject_challan up to its UPDATE: the reads and the validation (lines 312-324).
reject_begin(p, challan_id, role, rejecter_username, rejection_reason) ==
    LET r == reject_check(challans, challan_id, role, rejecter_username) IN
    /\ resp = NoResp
    /\ inflight[p].op = "idle"
    /\ writes + Cardinality({q \in Procs : inflight[q].op # "idle"}) < MaxWrites
    /\ IF r = "ok"
       THEN /\ inflight' = [inflight EXCEPT ![p] =
                    Call("reject", challan_id, role, rejecter_username, rejection_reason,
                         StageStatus(challans[challan_id], role))]
            /\ UNCHANGED resp
       ELSE /\ resp' = ErrorMsg(r, challan_id, role, rejecter_username)
            /\ UNCHANGED inflight
    /\ UNCHANGED <<challans, now, trail, writes>>

\* The rest of a validated approve_challan / reject_challan: the UPDATE and the
\* success message (lines 259-289, 326-344).
decide_commit(p) ==
    LET c == inflight[p]
        status == IF c.op = "approve" THEN "approved" ELSE "rejected"
        msg == Msg(status, c.challan_id, c.username, c.role, c.remarks)
    IN
    /\ resp = NoResp
    /\ c.op # "idle"
    /\ challans' = db_update_approval_status(challans, c.challan_id, c.role, status,
                                             c.remarks, now)
    /\ resp' = msg
    /\ Logged(msg, c.role)
    /\ inflight' = [inflight EXCEPT ![p] = Idle]
    /\ UNCHANGED now

\* The tables a construction of ChallanDatabase leaves: init_db drops and recreates
\* them, populate_sample_data inserts the sample challans.
SeedTables ==
    {t \in [1..NumSeeds -> {SeedRow(i, f) : i \in 1..NumSeeds, f \in StatusFlows}] :
        \A i \in 1..NumSeeds : t[i].serial_number = SeedSerials[i]}

\* A further server instance is started on the same db_path: importing database
\* constructs ChallanDatabase again.
Restart ==
    /\ resp = NoResp
    /\ challans' \in SeedTables
    /\ trail' = [i \in 1..NumSeeds |-> "seed"]
    /\ inflight' = [p \in Procs |-> Idle]
    /\ UNCHANGED <<now, resp, writes>>

\* The transport hands the returned message to the caller; the next call can start.
Deliver ==
    /\ resp # NoResp
    /\ resp' = NoResp
    /\ UNCHANGED <<challans, now, trail, writes, inflight>>

\* Time passes between calls.
Tick ==
    /\ resp = NoResp
    /\ now < StartTime + MaxTicks
    /\ now' = now + 1
    /\ UNCHANGED <<challans, resp, trail, writes, inflight>>

\* ------------------------------------------------------- the specifications
Init ==
    /\ challans \in SeedTables
    /\ now = StartTime
    /\ resp = NoResp
    /\ trail = [i \in 1..NumSeeds |-> "seed"]
    /\ writes = 0
    /\ inflight = [p \in Procs |-> Idle]

Submit  == \E s \in AnySerials, q \in AnyQuantities, u \in AnyRequesters :
               CreateCall(s, q, u)
Approve == \E i \in AnyIds(challans), r \in AnyRoles, u \in AnyNames, m \in ApproveRemarks :
               ApproveCall(i, r, u, m)
Reject  == \E i \in AnyIds(challans), r \in AnyRoles, u \in AnyNames, m \in RejectReasons :
               RejectCall(i, r, u, m)

Status  == \E i \in AnyIds(challans) : StatusCall(i)
Pending == \E r \in PendingRoles, u \in PendingNames : PendingCall(r, u)

Next == Submit \/ Approve \/ Reject \/ Status \/ Pending \/ Deliver \/ Tick

Spec == Init /\ [][Next]_vars

ApproveBegin == \E p \in Procs, i \in AnyIds(challans), r \in AnyRoles, u \in AnyNames,
                   m \in ApproveRemarks : approve_begin(p, i, r, u, m)
RejectBegin  == \E p \in Procs, i \in AnyIds(challans), r \in AnyRoles, u \in AnyNames,
                   m \in RejectReasons : reject_begin(p, i, r, u, m)
Commit       == \E p \in Procs : decide_commit(p)

ConcNext == ApproveBegin \/ RejectBegin \/ Commit \/ Deliver \/ Tick

\* Callers race on the rows populate_sample_data inserted; none submits meanwhile.
ConcSpec == Init /\ [][ConcNext]_vars

SubmitBegin  == \E p \in Procs, s \in AnySerials, q \in AnyQuantities, u \in AnyRequesters :
                   create_begin(p, s, q, u)
SubmitCommit == \E p \in Procs : create_commit(p)

SubmitNext == SubmitBegin \/ SubmitCommit \/ Deliver \/ Tick

\* Callers race on create_challan.
SubmitSpec == Init /\ [][SubmitNext]_vars

RestartNext == Submit \/ Approve \/ Reject \/ Status \/ Deliver \/ Tick \/ Restart

\* The store over the starts of further server instances.
RestartSpec == Init /\ [][RestartNext]_vars

SubmitBy == \E s \in AnySerials, q \in AnyQuantities, u \in ListNames : CreateCall(s, q, u)
ListMine == \E u \in ListNames : ListMineCall(u)

ListNext == SubmitBy \/ Approve \/ Reject \/ ListMine \/ ListAllCall \/ Deliver

\* Challans of several requesters are created and decided, and the lists are read
\* (no list reads the clock: it stands still).
ListSpec == Init /\ [][ListNext]_vars

Summary == \E p \in Procs : summary_query(p)

SummaryNext == Summary \/ Approve \/ Reject \/ Deliver \/ Tick

\* The pending-approvals resource is read while decisions are made on the rows
\* populate_sample_data inserted.
SummarySpec == Init /\ [][SummaryNext]_vars

\* ------------------------------------------------------------------ claims
\* The derivation of final_status from the three stage statuses (spec, section 3).
DerivedFinal(row) ==
    IF /\ row.manager_status = "approved"
       /\ row.hod_status = "approved"
       /\ row.it_status = "approved"
    THEN "approved"
    ELSE IF \/ row.manager_status = "rejected"
            \/ row.hod_status = "rejected"
            \/ row.it_status = "rejected"
    THEN "rejected"
    ELSE "pending"

\* The guard table of spec section 4.2: the stages before the role's are approved.
PriorApproved(row, role) ==
    CASE role = "manager"  -> TRUE
      [] role = "hod"      -> row.manager_status = "approved"
      [] role = "it_admin" -> row.manager_status = "approved" /\ row.hod_status = "approved"
      [] OTHER             -> FALSE

GuardSatisfied(row, role) ==
    PriorApproved(row, role) /\ StageStatus(row, role) = "pending"

AnyRejected(row) == \E r \in Stages : StageStatus(row, r) = "rejected"

Ids == 1..Len(challans)
Submitted(i) == trail[i] # "seed"
OrderErrors  == {"hod_before_manager", "it_before_manager_hod"}
\* the stored users holding a role
Holders(role) == {u \in UserNames : users[u] = role}

\* C1: in every reachable state each challan's stored final_status equals the
\* derivation from its three stage statuses.
C1_FinalStatusIsDerived ==
    \A i \in Ids : challans[i].final_status = DerivedFinal(challans[i])

\* C2: for every challan created by create_challan, hod_status is not pending only
\* if manager_status is approved, and it_status is not pending only if manager_status
\* and hod_status are both approved.
C2_StageOrdering ==
    \A i \in Ids :
        Submitted(i) =>
            /\ challans[i].hod_status # "pending" => challans[i].manager_status = "approved"
            /\ challans[i].it_status # "pending" =>
                   /\ challans[i].manager_status = "approved"
                   /\ challans[i].hod_status = "approved"

\* C3: when a decide call validated its challan while the role's stage was pending
\* and the guard held, and another call has decided that stage before this one
\* writes, this call fails with a sequence error and writes nothing (of two racing
\* calls exactly one succeeds; the stage is written once).
C3_AtMostOnceEffective ==
    [][\A p \in Procs :
          LET c == inflight[p] IN
          ( /\ decide_commit(p)
            /\ c.seen = "pending"
            /\ PriorApproved(challans[c.challan_id], c.role)
            /\ StageStatus(challans[c.challan_id], c.role) # "pending" )
          => /\ challans' = challans
             /\ resp'.kind \in OrderErrors ]_vars

\* What a call would do in the current state.
ApproveNow(i, r, u, m) == approve_challan(challans, now, i, r, u, m)
RejectNow(i, r, u, m)  == reject_challan(challans, now, i, r, u, m)

LaterStages(role) ==
    CASE role = "manager" -> {"hod", "it_admin"}
      [] role = "hod"     -> {"it_admin"}
      [] OTHER            -> {}

\* C4: once any stage of a challan is rejected, final_status is rejected in that
\* state and in every later one, and an approve or reject call for a later stage of
\* that challan fails with a sequence error and changes nothing.
C4_RejectionIsFinal ==
    [][\A i \in Ids :
          AnyRejected(challans[i]) =>
            /\ challans[i].final_status = "rejected"
            /\ challans'[i].final_status = "rejected"
            /\ \A s \in Stages :
                  StageStatus(challans[i], s) = "rejected" =>
                     \A r \in LaterStages(s) : \A u \in Holders(r) :
                        /\ \A m \in ApproveRemarks :
                              ApproveCall(i, r, u, m) =>
                                  challans' = challans /\ resp'.kind \in OrderErrors
                        /\ \A m \in RejectReasons :
                              RejectCall(i, r, u, m) =>
                                  challans' = challans /\ resp'.kind \in OrderErrors
      ]_vars

\* C5: an approve or reject call (by a holder of the role) for a stage that is
\* already approved or rejected fails with a sequence error and leaves the table,
\* hence the stage's status, its date, the remarks and final_status, unchanged.
C5_DecidedStageIsFrozen ==
    [][\A i \in Ids, r \in Stages :
          StageStatus(challans[i], r) # "pending" =>
             \A u \in Holders(r) :
                /\ \A m \in ApproveRemarks :
                      ApproveCall(i, r, u, m) =>
                          challans' = challans /\ resp'.kind \in OrderErrors
                /\ \A m \in RejectReasons :
                      RejectCall(i, r, u, m) =>
                          challans' = challans /\ resp'.kind \in OrderErrors ]_vars

\* C6: an approve or reject call by a holder of the role for a stage whose prior
\* stages are not all approved (hod while manager is pending, it_admin while manager
\* or hod is not approved) returns a sequence error and leaves the table unchanged.
C6_PrematureDecideFails ==
    [][\A i \in Ids, r \in Stages :
          ~PriorApproved(challans[i], r) =>
             \A u \in Holders(r) :
                /\ \A m \in ApproveRemarks :
                      ApproveCall(i, r, u, m) =>
                          challans' = challans /\ resp'.kind \in OrderErrors
                /\ \A m \in RejectReasons :
                      RejectCall(i, r, u, m) =>
                          challans' = challans /\ resp'.kind \in OrderErrors ]_vars

\* C7: whenever a call can start, an approve or reject call on an existing challan,
\* whatever its state, by a stored user whose role differs from the role argument
\* returns the role-mismatch error and leaves the table unchanged.
C7_RoleEnforcement ==
    resp = NoResp =>
        \A i \in Ids, r \in AnyRoles, u \in UserNames :
            users[u] # r =>
                /\ \A m \in ApproveRemarks :
                      ApproveNow(i, r, u, m) =
                          [table |-> challans, msg |-> Msg("role_mismatch", 0, u, r, NULL)]
                /\ \A m \in RejectReasons :
                      RejectNow(i, r, u, m) =
                          [table |-> challans, msg |-> Msg("role_mismatch", 0, u, r, NULL)]

\* C7 witness: a manager-role call was refused for role mismatch on a table that
\* holds a challan whose guard is satisfied for the manager stage.
C7_Witness ==
    /\ resp.kind = "role_mismatch"
    /\ resp.role = "manager"
    /\ \E i \in Ids : GuardSatisfied(challans[i], "manager")

\* C8: an approve or reject call on an existing challan by a holder of the role,
\* with the guard table satisfied, succeeds: afterwards the stage's status is the
\* decision, its date is set and final_status equals the derivation.
C8_LegalDecideTakesFullEffect ==
    [][\A i \in Ids, r \in Stages :
          GuardSatisfied(challans[i], r) =>
             \A u \in Holders(r) :
                /\ \A m \in ApproveRemarks :
                      ApproveCall(i, r, u, m) =>
                          /\ resp'.kind = "approved"
                          /\ StageStatus(challans'[i], r) = "approved"
                          /\ StageDate(challans'[i], r) # NullDate
                          /\ challans'[i].final_status = DerivedFinal(challans'[i])
                /\ \A m \in RejectReasons :
                      RejectCall(i, r, u, m) =>
                          /\ resp'.kind = "rejected"
                          /\ StageStatus(challans'[i], r) = "rejected"
                          /\ StageDate(challans'[i], r) # NullDate
                          /\ challans'[i].final_status = DerivedFinal(challans'[i]) ]_vars

\* C9: a submitted challan whose updates were exactly manager approve, hod approve,
\* it_admin approve, in this order, has final_status approved and is in the pending
\* list of none of the three roles.
C9_FullApprovalPath ==
    \A i \in Ids :
        trail[i] = "mhi" =>
            /\ challans[i].final_status = "approved"
            /\ \A r \in Stages : i \notin db_get_pending_approvals(challans, r)

\* C9 witness: a submitted challan has gone through the three approvals.
C9_Witness == \E i \in Ids : trail[i] = "mhi"

\* C10: a challan is in a role's pending list iff the guard predicate of the role
\* holds for it, iff an approve call by a holder of the role would be accepted now.
C10_PendingIffApprovable ==
    \A i \in Ids, r \in Stages :
        /\ i \in db_get_pending_approvals(challans, r) <=> GuardSatisfied(challans[i], r)
        /\ i \in db_get_pending_approvals(challans, r)
              <=> \E u \in Holders(r) : approve_check(challans, i, r, u) = "ok"

\* C11: a freshly submitted challan is in the manager's pending list; right after
\* its manager approval it is out of the manager's list and in the hod's; right after
\* the hod approval that follows it is out of the hod's list and in the it_admin's.
C11_HandOff ==
    \A i \in Ids :
        /\ trail[i] = "submitted" => i \in db_get_pending_approvals(challans, "manager")
        /\ trail[i] = "m" =>
               /\ i \notin db_get_pending_approvals(challans, "manager")
               /\ i \in db_get_pending_approvals(challans, "hod")
        /\ trail[i] = "mh" =>
               /\ i \notin db_get_pending_approvals(challans, "hod")
               /\ i \in db_get_pending_approvals(challans, "it_admin")

\* C11 witness: the hod's approval of a submitted, manager-approved challan has
\* just returned.
C11_Witness ==
    /\ resp.kind = "approved"
    /\ resp.role = "hod"
    /\ resp.challan_id \in Ids
    /\ trail[resp.challan_id] = "mh"

\* How many stored challans carry a serial number.
SerialCount(t, s) == Cardinality({i \in 1..Len(t) : t[i].serial_number = s})

\* the outcome of a submit refused as a duplicate, on the table it ran on
RefusedAsDuplicate(out, s) ==
    /\ out.msg.kind = "create_error"
    /\ out.table = challans
    /\ SerialCount(out.table, s) = 1

\* C12: no two stored challans share a serial number; a create_challan with a
\* serial number already stored, called now or already past its requester lookup
\* when the serial number got stored, fails with the error of the INSERT and leaves
\* the table with exactly one challan of that serial number.
C12_SerialUnique ==
    /\ \A i \in Ids, j \in Ids : i # j => challans[i].serial_number # challans[j].serial_number
    /\ resp = NoResp =>
          /\ \A s \in AnySerials, q \in AnyQuantities, u \in UserNames :
                SerialCount(challans, s) > 0 =>
                    RefusedAsDuplicate(create_challan(challans, now, s, q, u), s)
          /\ \A p \in Procs :
                (/\ inflight[p].op = "create"
                 /\ SerialCount(challans, inflight[p].serial_number) > 0) =>
                    RefusedAsDuplicate(
                        create_insert(challans, now, inflight[p].serial_number,
                                      inflight[p].quantity, inflight[p].requested_by),
                        inflight[p].serial_number)

\* C12 witness: a create_challan is past its requester lookup, and meanwhile
\* another caller's create_challan has stored a challan with the same serial number.
C12_Witness ==
    /\ resp = NoResp
    /\ \E p \in Procs, i \in Ids :
          /\ inflight[p].op = "create"
          /\ Submitted(i)
          /\ challans[i].serial_number = inflight[p].serial_number

\* C13: a challan inserted by a successful create_challan, before any update, has
\* its three statuses pending, its three dates null and final_status pending.
C13_SubmitStartsInitial ==
    \A i \in Ids :
        trail[i] = "submitted" =>
            /\ \A r \in Stages : /\ StageStatus(challans[i], r) = "pending"
                                  /\ StageDate(challans[i], r) = NullDate
            /\ challans[i].final_status = "pending"

\* C13 witness: create_challan has just returned the id of the challan it inserted.
C13_Witness ==
    /\ resp.kind = "created"
    /\ resp.challan_id \in Ids
    /\ trail[resp.challan_id] = "submitted"

\* C14: whenever a call can start, create_challan with a requester that is not a
\* stored user returns the user-not-found error and leaves the table unchanged.
C14_UnknownRequester ==
    resp = NoResp =>
        \A s \in AnySerials, q \in AnyQuantities, u \in AnyRequesters \ UserNames :
            create_challan(challans, now, s, q, u) =
                [table |-> challans, msg |-> Msg("user_not_found", 0, u, "", NULL)]

\* C14 witness: create_challan has refused the requester "nobody" after decisions
\* were written to the table, and no challan was added.
C14_Witness ==
    /\ resp.kind = "user_not_found"
    /\ resp.username = "nobody"
    /\ writes > 0
    /\ Len(challans) = NumSeeds

\* C15: every challan created by create_challan has quantity > 0 and a non-empty
\* serial number (a create_challan with quantity <= 0 or an empty serial number
\* inserts nothing).
C15_SubmitValidated ==
    \A i \in Ids :
        Submitted(i) => challans[i].quantity > 0 /\ challans[i].serial_number # ""

\* C16: a challan created by create_challan is never deleted: in every step it
\* stays readable by get_challan_status under its id, with the same requester and
\* request date, also when a further server instance is started on the store.
C16_NeverDeleted ==
    [][\A i \in Ids :
          Submitted(i) =>
              /\ get_challan_status(challans', i).kind = "status"
              /\ get_challan_status(challans', i).requested_by =
                     get_challan_status(challans, i).requested_by
              /\ get_challan_status(challans', i).request_date =
                     get_challan_status(challans, i).request_date ]_vars

\* C17: in every state of the table, also between the validation and the UPDATE of
\* concurrent decide calls, each stage's status is pending iff its date is null.
C17_NoHalfUpdatedStage ==
    \A i \in Ids, r \in Stages :
        StageStatus(challans[i], r) = "pending" <=> StageDate(challans[i], r) = NullDate

\* C17 witness: a decide call has written a stage while another caller's decide
\* call is between its validation and its UPDATE.
C17_Witness ==
    /\ \E p \in Procs : inflight[p].op # "idle"
    /\ \E i \in Ids, r \in Stages :
          /\ StageStatus(challans[i], r) # "pending"
          /\ StageDate(challans[i], r) >= StartTime

\* The other two stages and the descriptive fields of a row are the same in a and b.
RowFrameKept(a, b, role) ==
    /\ \A s \in Stages \ {role} : /\ StageStatus(a, s) = StageStatus(b, s)
                                    /\ StageDate(a, s) = StageDate(b, s)
    /\ a.serial_number = b.serial_number
    /\ a.quantity = b.quantity
    /\ a.requested_by = b.requested_by
    /\ a.request_date = b.request_date

\* The outcome out of a decide call on table t for challan i and role r keeps the frame.
FrameKept(t, out, i, r) ==
    IF out.msg.kind \in {"approved", "rejected"}
    THEN /\ Len(out.table) = Len(t)
         /\ \A j \in 1..Len(t) :
               IF j = i THEN RowFrameKept(t[j], out.table[j], r)
               ELSE out.table[j] = t[j]
    ELSE out.table = t

\* C18: whenever a call can start, an approve or reject call with any arguments
\* that succeeds changes, of the challan it names, at most the role's status and
\* date, the remarks and final_status, and changes no other challan and not the
\* number of challans; a call that fails changes nothing.
C18_DecideFrame ==
    resp = NoResp =>
        \A i \in AnyIds(challans), r \in AnyRoles, u \in AnyNames :
            /\ \A m \in ApproveRemarks : FrameKept(challans, ApproveNow(i, r, u, m), i, r)
            /\ \A m \in RejectReasons : FrameKept(challans, RejectNow(i, r, u, m), i, r)

\* C18 witness: a hod rejection has just succeeded on a table of two challans,
\* the rejected one with a decided manager stage.
C18_Witness ==
    /\ resp.kind = "rejected"
    /\ resp.role = "hod"
    /\ Len(challans) = 2
    /\ resp.challan_id \in Ids
    /\ challans[resp.challan_id].manager_status = "approved"
    /\ challans[resp.challan_id].hod_status = "rejected"

\* C19: the report of get_challan_status for a challan differs between two
\* consecutive states only when the step is a successful approve or reject of
\* that challan (so two reads with no decide on it in between return the same),
\* and a step that returns a report changes nothing but the returned message.
C19_IdempotentRead ==
    [][/\ \A i \in Ids :
             get_challan_status(challans', i) # get_challan_status(challans, i) =>
                 resp'.kind \in {"approved", "rejected"} /\ resp'.challan_id = i
       /\ resp'.kind \in {"status", "status_not_found"} =>
             /\ UNCHANGED <<challans, now, trail, writes, inflight>>
             /\ resp' = get_challan_status(challans, resp'.challan_id) ]_vars

\* C19 witness: get_challan_status has returned the report of a submitted challan
\* after its manager approval.
C19_Witness ==
    /\ resp.kind = "status"
    /\ resp.challan_id \in Ids
    /\ trail[resp.challan_id] = "m"
    /\ resp.manager_status = "approved"

\* the ids listed in a message of get_pending_approvals_for_role
ListedIds(m) == IF m.kind = "pending_list" THEN {x.challan_id : x \in m.items} ELSE {}

\* C20: whenever a call can start, get_pending_approvals_for_role returns the
\* pending list of the role when the username is a stored user of that role, the
\* same message for every holder of the role, and otherwise an error that carries
\* no challan.
C20_ListPendingAuthorized ==
    resp = NoResp =>
        \A r \in AnyRoles, u \in AnyNames \cup UserNames :
            LET m == get_pending_approvals_for_role(challans, r, u) IN
            IF db_get_user_by_username(u) = r
            THEN /\ m.kind \in {"pending_list", "none_pending"}
                 /\ ListedIds(m) = db_get_pending_approvals(challans, r)
                 /\ \A v \in Holders(r) :
                       get_pending_approvals_for_role(challans, r, v) = m
            ELSE /\ m.kind \in {"pending_user_not_found", "pending_role_mismatch"}
                 /\ "items" \notin DOMAIN m

\* C20 witness: the manager's pending list has been returned and it names a
\* submitted challan.
C20_Witness ==
    /\ resp.kind = "pending_list"
    /\ resp.role = "manager"
    /\ \E x \in resp.items : Submitted(x.challan_id)

\* In a result (a sequence of ids) a challan of a later request_date comes earlier.
NewestFirst(o) ==
    \A a, b \in DOMAIN o :
        challans[o[a]].request_date < challans[o[b]].request_date => b < a

MineIds(m) == IF m.kind = "my_list" THEN {m.items[k].challan_id : k \in DOMAIN m.items} ELSE {}

\* C25: whenever a call can start, list_my_challans(username) lists exactly the
\* challans whose requested_by is username, each once, and the all-challans
\* resource lists every stored challan, each once.
C25_ListsExact ==
    resp = NoResp =>
        /\ \A u \in UserNames \cup {"nobody"} :
              \A m \in list_my_challans(challans, u) :
                 /\ MineIds(m) = {i \in Ids : challans[i].requested_by = u}
                 /\ m.kind = "my_list" => m.total = Cardinality(MineIds(m))
        /\ \A m \in get_all_challans(challans) :
              /\ {m.items[k].challan_id : k \in DOMAIN m.items} = Ids
              /\ Len(m.items) = Len(challans)
              /\ \A k \in DOMAIN m.items : m.items[k].row = challans[m.items[k].challan_id]

\* C25 witness: list_my_challans has returned one requester's challan while the
\* table also holds a challan of another requester.
C25_Witness ==
    /\ resp.kind = "my_list"
    /\ resp.total = 1
    /\ \E i \in Ids : challans[i].requested_by # resp.username

\* a step in which a decide call on challan i returns success
DecidedNow(i) ==
    /\ resp = NoResp
    /\ resp'.kind \in {"approved", "rejected"}
    /\ resp'.challan_id = i

\* C22: a successful approve or reject of a challan that supplies remarks stores
\* them, one that supplies none leaves the stored remarks, and no other step
\* changes a challan's remarks (so remarks are those of the last successful decide
\* that supplied any).
C22_RemarksLastNonNull ==
    [][\A i \in Ids :
          IF DecidedNow(i)
          THEN challans'[i].remarks =
                  (IF resp'.remarks # NULL THEN resp'.remarks ELSE challans[i].remarks)
          ELSE challans'[i].remarks = challans[i].remarks ]_vars

FullyApproved(row) ==
    /\ \A r \in Stages : StageStatus(row, r) = "approved"
    /\ row.final_status = "approved"

\* C23: once a challan has its three stages and final_status approved, no approve
\* or reject call on it succeeds and it stays so in every later state.
C23_FullyApprovedTerminal ==
    [][\A i \in Ids :
          FullyApproved(challans[i]) =>
              /\ ~DecidedNow(i)
              /\ FullyApproved(challans'[i]) ]_vars

\* C24: whenever a call can start, an approve or reject call with a challan id
\* that is not stored or a username that is not a stored user returns the
\* not-found error of the challan or of the user and leaves the table unchanged.
C24_NotFound ==
    resp = NoResp =>
        \A i \in AnyIds(challans), r \in AnyRoles, u \in AnyNames :
            (i \notin Ids \/ u \notin UserNames) =>
                /\ \A m \in ApproveRemarks :
                      /\ ApproveNow(i, r, u, m).table = challans
                      /\ ApproveNow(i, r, u, m).msg.kind =
                            (IF i \notin Ids THEN "challan_not_found"
                                             ELSE "approver_not_found")
                /\ \A m \in RejectReasons :
                      /\ RejectNow(i, r, u, m).table = challans
                      /\ RejectNow(i, r, u, m).msg.kind =
                            (IF i \notin Ids THEN "challan_not_found"
                                             ELSE "rejecter_not_found")

\* C24 witness: an approve call on a stored challan by "nobody" has been refused
\* after decisions were written to the table.
C24_Witness ==
    /\ resp.kind = "approver_not_found"
    /\ resp.username = "nobody"
    /\ writes > 0

\* C26: a decide call that returns success has written the stage record of its
\* role: the role is manager, hod or it_admin, and that stage of the challan now
\* carries the decision and the current time.
C26_SuccessMeansWritten ==
    [][\A i \in Ids :
          DecidedNow(i) =>
              /\ resp'.role \in Stages
              /\ StageStatus(challans'[i], resp'.role) = resp'.kind
              /\ StageDate(challans'[i], resp'.role) = now ]_vars

\* the roles in whose pending list a challan is
PendingRolesOf(i) == {r \in Stages : i \in db_get_pending_approvals(challans, r)}

\* C27: every challan created by create_challan with no rejected stage and not
\* all three approved is in the pending list of exactly one role, and every
\* challan with a rejected stage is in the pending list of no role.
C27_NoneStranded ==
    \A i \in Ids :
        /\ ( /\ Submitted(i)
             /\ ~AnyRejected(challans[i])
             /\ \E r \in Stages : StageStatus(challans[i], r) # "approved" )
           => Cardinality(PendingRolesOf(i)) = 1
        /\ AnyRejected(challans[i]) => PendingRolesOf(i) = {}

\* C28: the pending lists of two different roles have no challan in common.
C28_PendingDisjoint ==
    \A r1 \in Stages, r2 \in Stages :
        r1 # r2 =>
            db_get_pending_approvals(challans, r1) \cap db_get_pending_approvals(challans, r2) = {}

\* C28 witness: two roles have a non-empty pending list at once, one of them with
\* a challan decided by a tool call.
C28_Witness ==
    /\ db_get_pending_approvals(challans, "manager") # {}
    /\ \E i \in db_get_pending_approvals(challans, "hod") :
          challans[i].manager_approval_date >= StartTime

\* C29: when the pending-approvals resource returns, the three sets of challans
\* it counted are pairwise disjoint: total_pending counts no challan twice, as the
\* pending sets of any single state of the table are (C28).
C29_SummaryIsSnapshot ==
    [][\A p \in Procs :
          ( /\ inflight[p].op = "summary"
            /\ inflight[p].pc = 2
            /\ inflight'[p].op = "idle"
            /\ resp'.kind = "pending_summary" )
          => /\ inflight[p].pending_manager \cap inflight[p].pending_hod = {}
             /\ inflight[p].pending_manager
                    \cap db_get_pending_approvals(challans, "it_admin") = {}
             /\ inflight[p].pending_hod
                    \cap db_get_pending_approvals(challans, "it_admin") = {} ]_vars

\* C30: for every challan created by create_challan, the manager date is not later
\* than the hod date and the hod date not later than the it_admin date, whenever
\* both dates are set.
C30_DatesInStageOrder ==
    \A i \in Ids :
        Submitted(i) =>
            LET md == challans[i].manager_approval_date
                hd == challans[i].hod_approval_date
                id == challans[i].it_approval_date
            IN /\ (md # NullDate /\ hd # NullDate) => md <= hd
               /\ (hd # NullDate /\ id # NullDate) => hd <= id
               /\ (md # NullDate /\ id # NullDate) => md <= id

====
